---- MODULE Spec2Model ----
(***************************************************************************)
(* State-machine model of src/src/App.jsx: the layout generator            *)
(* (computeTargets), the transition animator (transform, and the tween     *)
(* group it drives from the animate loop) and the dataset loading effect   *)
(* (login callback, build-scene effect, cleanupThree).                     *)
(*                                                                         *)
(* Numbers.  JavaScript numbers are binary floating point.  The model      *)
(* keeps every coordinate and angle as an integer count of 1/Unit, and     *)
(* rounds the result of every arithmetic step of the tween interpolation   *)
(* to MantissaBits significant bits (FlRound), which is what a binary      *)
(* floating-point format does with a narrower mantissa than the 53 bits    *)
(* of a double.  Trigonometry is integer arithmetic on whole degrees       *)
(* (Bhaskara's rational approximation of the sine).                        *)
(***************************************************************************)
EXTENDS Integers, Sequences, FiniteSets, TLC

(* ------------------------------ bounds -------------------------------- *)
\* fraction bits of the fixed-point unit
FracBits == 6
\* significant bits kept by one floating-point operation
MantissaBits == 14
\* rows the sheet may return
MaxRows == 2
\* dataset loads started in one run
MaxLoads == 2
\* token requests outstanding at once
MaxRequests == 2
\* distinct access tokens the identity provider hands out
MaxTokens == 2
\* the clock stops advancing here
MaxTime == 2400
\* the shortest distance between two clock readings
TickStep == 600
\* largest count handed to the grid layout on its own
MaxCount == 240

(* ------------------------- program constants -------------------------- *)
cols == 20
rows == 10
spacingX == 140
spacingY == 180
radius == 900
helixRadius == 550
separation == 30
turns == 10
sizeX == 5
sizeY == 4
sizeZ == 10
spacing == 320
DefaultDuration == 1200
InitialDuration == 2000
SliceLimit == 200
InitialX == 1400
InitialY == 900

(* ----------------------------- arithmetic ----------------------------- *)
Unit == 2 ^ FracBits

Abs(v) == IF v < 0 THEN -v ELSE v

Min(a, b) == IF a < b THEN a ELSE b

\* a / b to the nearest integer, b > 0
RoundDiv(a, b) == (a + b \div 2) \div b

RECURSIVE BitLen(_)
BitLen(m) == IF m = 0 THEN 0 ELSE 1 + BitLen(m \div 2)

\* the nearest number with MantissaBits significant bits
FlRound(v) ==
  LET m == Abs(v)
      q == 2 ^ (BitLen(m) - MantissaBits)
  IN  IF m < 2 ^ MantissaBits THEN v
      ELSE IF v < 0 THEN -(((m + q \div 2) \div q) * q)
      ELSE ((m + q \div 2) \div q) * q

\* an integer literal of the source, as a number of the model
Num(n) == FlRound(n * Unit)

RECURSIVE IsqrtFrom(_, _)
IsqrtFrom(n, r) ==
  LET s == (r + n \div r) \div 2
  IN  IF s >= r THEN r ELSE IsqrtFrom(n, s)

\* floor of the square root
Isqrt(n) == IF n = 0 THEN 0 ELSE IsqrtFrom(n, n)

\* 1000 * sin of d degrees, 0 <= d <= 180 (Bhaskara)
Bhaskara(d) == (4000 * d * (180 - d)) \div (40500 - d * (180 - d))

\* Math.sin and Math.cos, of whole degrees, in thousandths
Sin1000(d) ==
  LET r == d % 360
  IN  IF r <= 180 THEN Bhaskara(r) ELSE -Bhaskara(r - 180)

Cos1000(d) == Sin1000(d + 90)

\* Math.acos in degrees of c thousandths: the first degree whose cosine is <= c
AcosDeg(c) ==
  CHOOSE d \in 0..180 :
    /\ Cos1000(d) <= c
    /\ \A e \in 0..(d - 1) : Cos1000(e) > c

\* Math.asin in degrees of v thousandths: the nearest degree
AsinDeg(v) ==
  CHOOSE d \in -90..90 :
    /\ \A e \in -90..90 : Abs(Sin1000(d) - v) <= Abs(Sin1000(e) - v)
    /\ \A e \in -90..(d - 1) : Abs(Sin1000(d) - v) < Abs(Sin1000(e) - v)

\* Math.atan2(y, x) in degrees, y and x in thousandths: the degree whose unit
\* vector lies closest to (x, y); of -180 and 180 the first
Atan2Deg(y, x) ==
  IF x = 0 /\ y = 0 THEN 0
  ELSE CHOOSE d \in -180..180 :
    LET dot(e) == x * Cos1000(e) + y * Sin1000(e)
    IN  /\ \A e \in -180..180 : dot(d) >= dot(e)
        /\ \A e \in -180..(d - 1) : dot(d) > dot(e)

\* an angle in degrees as a number of the model (radians)
Rad(deg) == FlRound(RoundDiv(deg * Unit * 31416, 1800000))

(* -------------------------- layout generator -------------------------- *)
Vec(x, y, z) == <<x, y, z>>

Zero3 == Vec(0, 0, 0)

\* new THREE.Object3D() with its position set
Object3D(position, rotation) == [position |-> position, rotation |-> rotation]

\* Object3D.lookAt of the point that lies from the object in the direction
\* (sinPhi sinTheta, cosPhi, sinPhi cosTheta), thousandths: the Euler angles
\* (order XYZ) of the rotation whose z axis is that direction, up = +y
LookAt(sinPhi, cosPhi, sinTheta, cosTheta) ==
  LET dx == RoundDiv(sinPhi * sinTheta, 1000)
      dz == RoundDiv(sinPhi * cosTheta, 1000)
  IN  IF Abs(dx) >= 1000
      THEN Vec(0, Rad(AsinDeg(dx)), 0)
      ELSE Vec(Rad(Atan2Deg(-cosPhi, dz)),
               Rad(AsinDeg(dx)),
               Rad(Atan2Deg(RoundDiv(sinTheta * cosPhi, 1000), cosTheta)))

TablePosition(i) ==
  LET col == i % cols
      row == i \div cols
  IN  Vec(FlRound(RoundDiv((2 * col - (cols - 1)) * spacingX * Unit, 2)),
          FlRound(RoundDiv((-2 * row + (rows - 1)) * spacingY * Unit, 2)),
          0)

ComputeTable(count) ==
  [k \in 1..count |-> Object3D(TablePosition(k - 1), Zero3)]

SphereTarget(i, count) ==
  LET phi == AcosDeg(-1000 + (2000 * i) \div count)
      theta == (Isqrt(3141593 * count) * phi) \div 1000
      sinPhiRadius == RoundDiv(radius * Unit * Sin1000(phi), 1000)
  IN  Object3D(Vec(FlRound(RoundDiv(sinPhiRadius * Sin1000(theta), 1000)),
                   FlRound(RoundDiv(radius * Unit * Cos1000(phi), 1000)),
                   FlRound(RoundDiv(sinPhiRadius * Cos1000(theta), 1000))),
               LookAt(Sin1000(phi), Cos1000(phi), Sin1000(theta), Cos1000(theta)))

ComputeSphere(count) == [k \in 1..count |-> SphereTarget(k - 1, count)]

HelixTarget(i, count) ==
  LET angle == (i * turns * 360) \div count
      offset == IF i % 2 = 0 THEN 0 ELSE 180
      a == angle + offset
  IN  Object3D(Vec(FlRound(RoundDiv(Cos1000(a) * helixRadius * Unit, 1000)),
                   FlRound(RoundDiv((2 * i - count) * separation * Unit, 2)),
                   FlRound(RoundDiv(Sin1000(a) * helixRadius * Unit, 1000))),
               LookAt(1000, 0, Cos1000(a), Sin1000(a)))

ComputeHelix(count) == [k \in 1..count |-> HelixTarget(k - 1, count)]

\* mutant: the z layer is not centred
GridPositionUncentred(i) ==
  LET x == i % sizeX
      y == (i \div sizeX) % sizeY
      z == i \div (sizeX * sizeY)
  IN  Vec(FlRound(RoundDiv((2 * x - (sizeX - 1)) * spacing * Unit, 2)),
          FlRound(RoundDiv((-2 * y + (sizeY - 1)) * spacing * Unit, 2)),
          FlRound(z * spacing * Unit))

GridPosition(i) ==
  LET x == i % sizeX
      y == (i \div sizeX) % sizeY
      z == i \div (sizeX * sizeY)
  IN  Vec(FlRound(RoundDiv((2 * x - (sizeX - 1)) * spacing * Unit, 2)),
          FlRound(RoundDiv((-2 * y + (sizeY - 1)) * spacing * Unit, 2)),
          FlRound(RoundDiv((2 * z - (sizeZ - 1)) * spacing * Unit, 2)))

ComputeGrid(count) ==
  [k \in 1..count |-> Object3D(GridPosition(k - 1), Zero3)]

NoTargets == [table |-> <<>>, sphere |-> <<>>, helix |-> <<>>, grid |-> <<>>]

\* the four target sets of every count the sheet can supply, computed once
Layouts ==
  [count \in 0..Min(MaxRows, SliceLimit) |->
    [table |-> ComputeTable(count),
     sphere |-> ComputeSphere(count),
     helix |-> ComputeHelix(count),
     grid |-> ComputeGrid(count)]]

computeTargets(count) == Layouts[count]

\* obj.position.set((i % 20) * 140 - 1400, -Math.floor(i / 20) * 180 + 900, 0)
InitialPosition(i) ==
  Vec(Num((i % 20) * 140 - InitialX), Num(-(i \div 20) * 180 + InitialY), 0)

\* new CSS3DObject(tile) with its position set
NewObject(i) == Object3D(InitialPosition(i), Zero3)

(* ------------------------------- state -------------------------------- *)
VARIABLES
  accessToken,     \* useState: 0 is null, 1..MaxTokens a token
  tokenClientRef,  \* TRUE once initTokenClient has run
  requests,        \* requestAccessToken calls whose callback has not run yet
  effectCleanup,   \* TRUE while React holds the build-scene effect's cleanup
  rendererRef,     \* rendererRef.current is set (with cameraRef, controlsRef)
  sceneRef,        \* sceneRef.current is set
  rafRef,          \* a frame of the animate loop is requested
  objectsRef,      \* objectsRef.current: sequence of object identities
  objects,         \* the live CSS3DObjects: identity -> position, rotation
  targetsRef,      \* targetsRef.current: the four target sets
  tweenGroup,      \* tweenGroupRef.current: the tweens, in insertion order
  preserve,        \* the tween library's default for Group.update's preserve
  fetches,         \* loads whose fetchSheetRows is awaiting its response
  loadCount,       \* loads started so far
  now              \* performance.now(), which also stamps the frames

vars == <<accessToken, tokenClientRef, requests, effectCleanup, rendererRef,
          sceneRef, rafRef, objectsRef, objects, targetsRef, tweenGroup,
          preserve, fetches, loadCount, now>>

FormationNames == {"table", "sphere", "helix", "grid"}

Range(s) == {s[k] : k \in 1..Len(s)}

(* ----------------------------- tween engine --------------------------- *)
\* Easing.Exponential.InOut of k/20, in 2048ths.  amount = k/20:
\*   0 -> 0, 1 -> 1, amount*2 < 1 -> 0.5 * 1024^(amount*2 - 1),
\*   else 0.5 * (2 - 2^(-10 * (amount*2 - 1)))
\* mutant: amount = 1 is not special-cased
ExponentialInOutNoEnd(k) ==
  IF k = 0 THEN 0
  ELSE IF k < 10 THEN 2 ^ k
  ELSE 2 ^ 11 - 2 ^ (20 - k)

ExponentialInOut(k) ==
  IF k = 0 THEN 0
  ELSE IF k = 20 THEN 2 ^ 11
  ELSE IF k < 10 THEN 2 ^ k
  ELSE 2 ^ 11 - 2 ^ (20 - k)

\* the elapsed portion of a tween, in 20ths (the clock readings of the model
\* make 20 * elapsedTime / duration whole); 20 once elapsedTime >= duration
Portion(elapsedTime, duration) ==
  IF duration = 0 \/ elapsedTime >= duration THEN 20
  ELSE (20 * elapsedTime) \div duration

\* start + (end - start) * value, each step rounded as a float operation
Interpolate(start, end, value) ==
  FlRound(start + FlRound(RoundDiv(FlRound(end - start) * value, 2 ^ 11)))

\* what Tween.update writes to the tweened vector at `time`
TweenValue(tw, time) ==
  LET value == ExponentialInOut(Portion(time - tw.startTime, tw.duration))
  IN  [c \in 1..3 |-> Interpolate(tw.valuesStart[c], tw.valuesEnd[c], value)]

\* new Tween(object[property], group).to(to, duration).easing(...).start():
\* start() reads the start values from the live object and stamps now()
\* mutant: the start values are those the object was created with
StartTweenFromCreation(store, id, property, to, duration, time) ==
  [object |-> id, property |-> property,
   valuesStart |-> NewObject(id[2])[property], valuesEnd |-> to,
   startTime |-> time, duration |-> duration, isPlaying |-> TRUE]

StartTween(store, id, property, to, duration, time) ==
  [object |-> id, property |-> property,
   valuesStart |-> store[id][property], valuesEnd |-> to,
   startTime |-> time, duration |-> duration, isPlaying |-> TRUE]

\* mutant: the group is not cleared
RemoveAllKeep(group) == group

\* Group.removeAll()
RemoveAll(group) == <<>>

\* target.rotation.x || 0
OrZero(v) == IF v = 0 THEN 0 ELSE v

\* the tweens one transform call adds: for each object that has a target, a
\* position tween and then a rotation tween
\* mutant: the second tween of an object drives its position too
NewTweensBothPosition(objs, store, targetsArr, duration, time) ==
  LET m == Min(Len(objs), Len(targetsArr))
  IN  [j \in 1..(2 * m) |->
        LET i == (j + 1) \div 2
        IN  StartTween(store, objs[i], "position",
                       IF j % 2 = 1 THEN targetsArr[i].position
                       ELSE [c \in 1..3 |-> OrZero(targetsArr[i].rotation[c])],
                       duration, time)]

NewTweens(objs, store, targetsArr, duration, time) ==
  LET m == Min(Len(objs), Len(targetsArr))
  IN  [j \in 1..(2 * m) |->
        LET i == (j + 1) \div 2
        IN  IF j % 2 = 1
            THEN StartTween(store, objs[i], "position",
                            targetsArr[i].position, duration, time)
            ELSE StartTween(store, objs[i], "rotation",
                            [c \in 1..3 |-> OrZero(targetsArr[i].rotation[c])],
                            duration, time)]

\* transform(targetsArr, duration): the tween group it leaves
\* mutant: only the tweens of the objects that get a new target are removed
transformPerItem(objs, store, group, targetsArr, duration, time) ==
  IF Len(targetsArr) = 0 \/ Len(objs) = 0 THEN group
  ELSE LET m == Min(Len(objs), Len(targetsArr))
       IN  SelectSeq(group, LAMBDA tw :
                       \A i \in 1..m : tw.object # objs[i])
             \o NewTweens(objs, store, targetsArr, duration, time)

\* mutant: an empty target set is not checked for
transformNoTargetsGuard(objs, store, group, targetsArr, duration, time) ==
  IF Len(objs) = 0 THEN group
  ELSE RemoveAll(group) \o NewTweens(objs, store, targetsArr, duration, time)

transform(objs, store, group, targetsArr, duration, time) ==
  IF Len(targetsArr) = 0 \/ Len(objs) = 0 THEN group
  ELSE RemoveAll(group) \o NewTweens(objs, store, targetsArr, duration, time)

\* Tween.update(time) of one tween: the tween afterwards
\* mutant: a tween completes only once its duration is exceeded
UpdatedTweenLate(tw, time) ==
  IF ~tw.isPlaying \/ time < tw.startTime THEN tw
  ELSE IF time - tw.startTime > tw.duration
       THEN [tw EXCEPT !.isPlaying = FALSE]
       ELSE tw

UpdatedTween(tw, time) ==
  IF ~tw.isPlaying \/ time < tw.startTime THEN tw
  ELSE IF Portion(time - tw.startTime, tw.duration) = 20
       THEN [tw EXCEPT !.isPlaying = FALSE]
       ELSE tw

\* Tween.update(time) of one tween: the objects afterwards
UpdatedStore(store, tw, time) ==
  IF ~tw.isPlaying \/ time < tw.startTime THEN store
  ELSE [store EXCEPT ![tw.object][tw.property] = TweenValue(tw, time)]

\* Group.update(time): every tween of the group is updated in insertion order
\* with the one timestamp
RECURSIVE UpdateObjects(_, _, _, _)
UpdateObjects(group, store, time, k) ==
  IF k > Len(group) THEN store
  ELSE UpdateObjects(group, UpdatedStore(store, group[k], time), time, k + 1)

\* Group.update(time): the group afterwards; a tween that completed is removed
\* unless the group preserves it
UpdateGroup(group, time, keep) ==
  LET after == [k \in 1..Len(group) |-> UpdatedTween(group[k], time)]
  IN  IF keep THEN after ELSE SelectSeq(after, LAMBDA tw : tw.isPlaying)

\* objects no reference reaches are garbage
Collect(store, objs, group) ==
  [id \in (Range(objs) \cup {tw.object : tw \in Range(group)}) |-> store[id]]

(* ------------------------------- set-up ------------------------------- *)
Init ==
  /\ accessToken = 0
  /\ tokenClientRef = FALSE
  /\ requests = 0
  /\ effectCleanup = FALSE
  /\ rendererRef = FALSE
  /\ sceneRef = FALSE
  /\ rafRef = FALSE
  /\ objectsRef = <<>>
  /\ objects = <<>>
  /\ targetsRef = NoTargets
  /\ tweenGroup = <<>>
  /\ preserve \in BOOLEAN
  /\ fetches = {}
  /\ loadCount = 0
  /\ now = 0

(* ------------------------------- login -------------------------------- *)
\* the interval timer finds window.google and creates the token client
InitTokenClient ==
  /\ ~tokenClientRef
  /\ tokenClientRef' = TRUE
  /\ UNCHANGED <<accessToken, requests, effectCleanup, rendererRef, sceneRef,
                 rafRef, objectsRef, objects, targetsRef, tweenGroup, preserve,
                 fetches, loadCount, now>>

\* the sign-in button, rendered while accessToken is null
signInWithGoogle ==
  /\ accessToken = 0
  /\ tokenClientRef
  /\ requests < MaxRequests
  /\ requests' = requests + 1
  /\ UNCHANGED <<accessToken, tokenClientRef, effectCleanup, rendererRef,
                 sceneRef, rafRef, objectsRef, objects, targetsRef, tweenGroup,
                 preserve, fetches, loadCount, now>>

\* cleanupThree(): the loop is cancelled, the refs are reset; the tween group
\* is not touched
cleanupThree ==
  /\ rafRef' = FALSE
  /\ objectsRef' = <<>>
  /\ targetsRef' = NoTargets
  /\ rendererRef' = FALSE
  /\ sceneRef' = FALSE
  /\ objects' = Collect(objects, <<>>, tweenGroup)

\* the token client's callback: setAccessToken(resp.access_token), and with a
\* changed token React runs the previous effect's cleanup and then the
\* build-scene effect, which calls initThree and starts the fetch
TokenCallback(tok) ==
  /\ requests > 0
  /\ requests' = requests - 1
  /\ tok # accessToken
  /\ accessToken' = tok
  /\ IF ~effectCleanup /\ rendererRef
     THEN /\ effectCleanup' = FALSE
          /\ UNCHANGED <<rendererRef, sceneRef, rafRef, objectsRef, objects,
                         targetsRef, fetches, loadCount>>
     ELSE /\ loadCount < MaxLoads
          /\ effectCleanup' = TRUE
          /\ rendererRef' = TRUE
          /\ sceneRef' = TRUE
          /\ rafRef' = TRUE
          /\ objectsRef' = IF effectCleanup THEN <<>> ELSE objectsRef
          /\ targetsRef' = IF effectCleanup THEN NoTargets ELSE targetsRef
          /\ objects' = Collect(objects, objectsRef', tweenGroup)
          /\ loadCount' = loadCount + 1
          /\ fetches' = fetches \cup {loadCount + 1}
  /\ UNCHANGED <<tokenClientRef, tweenGroup, preserve, now>>

\* the callback with no access_token, or with the token already held: setError
\* only, or a state update React drops
TokenCallbackIdle ==
  /\ requests > 0
  /\ requests' = requests - 1
  /\ UNCHANGED <<accessToken, tokenClientRef, effectCleanup, rendererRef,
                 sceneRef, rafRef, objectsRef, objects, targetsRef, tweenGroup,
                 preserve, fetches, loadCount, now>>

(* ---------------------------- dataset load ---------------------------- *)
\* fetchSheetRows resolved with n rows: the rest of the async function
FetchResolve(l, n) ==
  /\ l \in fetches
  /\ fetches' = fetches \ {l}
  /\ IF ~sceneRef
     THEN \* throw new Error("Scene not initialized."): setError(msg)
          UNCHANGED <<objectsRef, objects, targetsRef, tweenGroup>>
     ELSE LET count == Min(n, SliceLimit)
              created == [k \in 1..count |-> <<l, k - 1>>]
              store == [id \in DOMAIN objects \cup Range(created) |->
                          IF id \in Range(created)
                          THEN NewObject(id[2]) ELSE objects[id]]
          IN  /\ targetsRef' = computeTargets(count)
              /\ objectsRef' = objectsRef \o created
              /\ tweenGroup' = transform(objectsRef', store, tweenGroup,
                                         targetsRef'.table, InitialDuration, now)
              /\ objects' = Collect(store, objectsRef', tweenGroup')
  /\ UNCHANGED <<accessToken, tokenClientRef, requests, effectCleanup,
                 rendererRef, sceneRef, rafRef, preserve, loadCount, now>>

\* fetchSheetRows threw.  denied: the message names 403 / Forbidden /
\* permission, so the catch logs out and cleans up; otherwise setError only
FetchReject(l, denied) ==
  /\ l \in fetches
  /\ fetches' = fetches \ {l}
  /\ IF denied
     THEN /\ accessToken' = 0
          /\ effectCleanup' = FALSE
          /\ cleanupThree
     ELSE UNCHANGED <<accessToken, effectCleanup, rafRef, objectsRef, objects,
                      targetsRef, rendererRef, sceneRef>>
  /\ UNCHANGED <<tokenClientRef, requests, tweenGroup, preserve, loadCount, now>>

(* ------------------------------ animator ------------------------------ *)
\* a formation button, rendered while accessToken is set:
\* transform(targetsRef.current[name]) with the default duration
TransformButton(name) ==
  /\ accessToken # 0
  /\ tweenGroup' = transform(objectsRef, objects, tweenGroup, targetsRef[name],
                             DefaultDuration, now)
  /\ objects' = Collect(objects, objectsRef, tweenGroup')
  /\ UNCHANGED <<accessToken, tokenClientRef, requests, effectCleanup,
                 rendererRef, sceneRef, rafRef, objectsRef, targetsRef,
                 preserve, fetches, loadCount, now>>

\* one frame of the animate loop, dt after the previous clock reading
Tick(dt) ==
  /\ rafRef
  /\ now + dt <= MaxTime
  /\ now' = now + dt
  /\ tweenGroup' = UpdateGroup(tweenGroup, now', preserve)
  /\ objects' = Collect(UpdateObjects(tweenGroup, objects, now', 1),
                        objectsRef, tweenGroup')
  /\ UNCHANGED <<accessToken, tokenClientRef, requests, effectCleanup,
                 rendererRef, sceneRef, rafRef, objectsRef, targetsRef,
                 preserve, fetches, loadCount>>

\* time passes while no frame is requested
Wait(dt) ==
  /\ ~rafRef
  /\ now + dt <= MaxTime
  /\ now' = now + dt
  /\ UNCHANGED <<accessToken, tokenClientRef, requests, effectCleanup,
                 rendererRef, sceneRef, rafRef, objectsRef, objects,
                 targetsRef, tweenGroup, preserve, fetches, loadCount>>

Steps == {TickStep, 2 * TickStep}

Next ==
  \/ InitTokenClient
  \/ signInWithGoogle
  \/ \E tok \in 1..MaxTokens : TokenCallback(tok)
  \/ TokenCallbackIdle
  \/ \E l \in 1..MaxLoads, n \in 0..MaxRows : FetchResolve(l, n)
  \/ \E l \in 1..MaxLoads, denied \in BOOLEAN : FetchReject(l, denied)
  \/ \E name \in FormationNames : TransformButton(name)
  \/ \E dt \in Steps : Tick(dt)
  \/ \E dt \in Steps : Wait(dt)

Spec == Init /\ [][Next]_vars

(* ------------------------------ the claims ---------------------------- *)
\* the tweens of a group that still advance
Playing(group) == {k \in 1..Len(group) : group[k].isPlaying}

\* a formation button ran transform with items and targets both non-empty
ButtonCall(name) ==
  /\ TransformButton(name)
  /\ Len(objectsRef) > 0
  /\ Len(targetsRef[name]) > 0

\* a load ran transform(table, 2000) with items and targets both non-empty
LoadCall(l, n) ==
  /\ FetchResolve(l, n)
  /\ sceneRef
  /\ n > 0

\* the position of object `id` lies strictly between where it was created and
\* the table slot of its row: a transition toward the table has moved it and
\* has not completed
MidFlight(id) ==
  /\ id \in DOMAIN objects
  /\ objects[id].position # InitialPosition(id[2])
  /\ objects[id].position # TablePosition(id[2])
  /\ objects[id].position[3] = 0

\* C1: in every reachable state the tween group holds at most one position
\* tween and at most one rotation tween per object.
C1_OneTransitionPerAttribute ==
  \A j, k \in 1..Len(tweenGroup) :
    (/\ tweenGroup[j].object = tweenGroup[k].object
     /\ tweenGroup[j].property = tweenGroup[k].property) => j = k

\* C1 witness: a second transform call has replaced the running transitions
\* of two items, and the four new tweens have run since: one of them started
\* from a position an earlier transition had reached.
C1_Witness ==
  /\ Len(objectsRef) = 2
  /\ Len(tweenGroup) = 4
  /\ \A k \in 1..4 : tweenGroup[k].isPlaying /\ tweenGroup[k].startTime < now
  /\ \E k \in 1..4 :
       /\ tweenGroup[k].property = "position"
       /\ tweenGroup[k].valuesStart # InitialPosition(tweenGroup[k].object[2])

\* C3: when transform returns after a call with non-empty items and targets,
\* the group holds exactly the tweens of this call: two per item that has a
\* target, all started at the time of the call and playing.
C3_LatestCallWins ==
  [][/\ \A name \in FormationNames : ButtonCall(name) =>
          /\ Len(tweenGroup') = 2 * Min(Len(objectsRef), Len(targetsRef[name]))
          /\ \A k \in 1..Len(tweenGroup') :
               /\ tweenGroup'[k].startTime = now
               /\ tweenGroup'[k].duration = DefaultDuration
               /\ tweenGroup'[k].isPlaying
     /\ \A l \in 1..MaxLoads, n \in 1..MaxRows : LoadCall(l, n) =>
          /\ Len(tweenGroup') = 2 * Min(Len(objectsRef'), Len(targetsRef'.table))
          /\ \A k \in 1..Len(tweenGroup') :
               /\ tweenGroup'[k].startTime = now
               /\ tweenGroup'[k].duration = InitialDuration
               /\ tweenGroup'[k].isPlaying]_vars

\* C3 witness: every tween of the group was started at the current clock
\* reading, later than the first load, on an item an earlier transition had
\* already moved.
C3_Witness ==
  /\ now >= 2 * TickStep
  /\ Len(tweenGroup) > 0
  /\ \A k \in 1..Len(tweenGroup) : tweenGroup[k].startTime = now
  /\ \E i \in 1..Len(objectsRef) : MidFlight(objectsRef[i])

\* C4: a transform call with no items or no targets changes no object, no
\* tween and no ref.
C4_NoOpCall ==
  [][/\ \A name \in FormationNames :
          (/\ TransformButton(name)
           /\ (Len(objectsRef) = 0 \/ Len(targetsRef[name]) = 0))
          => UNCHANGED <<objects, tweenGroup, objectsRef, targetsRef>>
     /\ \A l \in 1..MaxLoads : (FetchResolve(l, 0) /\ sceneRef) =>
          UNCHANGED <<objects, tweenGroup, objectsRef>>]_vars

\* C4 witness: items are alive and moving while the target sets are empty (a
\* load of no rows ran transform with an empty table over the items of an
\* earlier load).
C4_Witness ==
  /\ accessToken # 0
  /\ Len(objectsRef) > 0
  /\ targetsRef = NoTargets
  /\ Playing(tweenGroup) # {}

\* C5: a tween started at the current clock reading starts from the live
\* value of the attribute it drives.
C5_StartsFromLiveValue ==
  \A k \in 1..Len(tweenGroup) :
    (tweenGroup[k].startTime = now /\ tweenGroup[k].isPlaying) =>
      tweenGroup[k].valuesStart =
        objects[tweenGroup[k].object][tweenGroup[k].property]

\* C5 witness: an item was retargeted in mid flight: its position tween,
\* started now with the default duration, starts at neither the position the
\* item was created at nor the table slot it was moving to.
C5_Witness ==
  \E k \in 1..Len(tweenGroup) :
    /\ tweenGroup[k].startTime = now
    /\ tweenGroup[k].duration = DefaultDuration
    /\ tweenGroup[k].property = "position"
    /\ tweenGroup[k].valuesStart # tweenGroup[k].valuesEnd
    /\ MidFlight(tweenGroup[k].object)

\* C7: the item list and the four target sets have one length, and item i is
\* row i of one load.
C7_ItemsAlignedWithTargets ==
  /\ \A name \in FormationNames : Len(targetsRef[name]) = Len(objectsRef)
  /\ \E l \in 1..MaxLoads :
       \A i \in 1..Len(objectsRef) : objectsRef[i] = <<l, i - 1>>

\* no item, no target, no advancing tween
CoreEmpty ==
  /\ objectsRef = <<>>
  /\ targetsRef = NoTargets
  /\ Playing(tweenGroup) = {}

\* C9: after a failed fetch there is no item, no target and no active
\* transition, and that stays so until a load succeeds.
C9_FailedLoadLeavesNothing ==
  [][/\ (\E l \in 1..MaxLoads, denied \in BOOLEAN : FetchReject(l, denied))
          => CoreEmpty'
     /\ (/\ CoreEmpty
         /\ ~(\E l \in 1..MaxLoads, n \in 0..MaxRows : FetchResolve(l, n)))
          => CoreEmpty']_vars

Frame == \E dt \in Steps : Tick(dt)

\* the spacing of the floating-point numbers at the magnitude of v; 0 where
\* every number of that magnitude is held exactly
Quantum(v) ==
  IF BitLen(Abs(v)) <= MantissaBits THEN 0
  ELSE 2 ^ (BitLen(Abs(v)) - MantissaBits)

C10_ProgressByTimestamp ==
  [][Frame => \A k \in Playing(tweenGroup) :
       LET tw == tweenGroup[k]
       IN  /\ tw.object \in Range(objectsRef)
                => objects'[tw.object][tw.property] = TweenValue(tw, now')
           /\ now' < tw.startTime + tw.duration
                => \E j \in Playing(tweenGroup') : tweenGroup'[j] = tw
           /\ now' >= tw.startTime + tw.duration
                => \A j \in Playing(tweenGroup') : tweenGroup'[j] # tw
           /\ \A j \in Playing(tweenGroup) :
                tweenGroup[j].object = tw.object
                  => /\ tweenGroup[j].startTime = tw.startTime
                     /\ tweenGroup[j].duration = tw.duration]_vars

\* C10 witness: a position tween with the default duration is still playing
\* one clock step after its start, and the item stands where the tween puts
\* it at that reading, away from its start.
C10_Witness ==
  \E k \in Playing(tweenGroup) :
    /\ tweenGroup[k].duration = DefaultDuration
    /\ tweenGroup[k].property = "position"
    /\ now = tweenGroup[k].startTime + TickStep
    /\ tweenGroup[k].valuesStart # tweenGroup[k].valuesEnd
    /\ objects[tweenGroup[k].object].position = TweenValue(tweenGroup[k], now)
    /\ objects[tweenGroup[k].object].position # tweenGroup[k].valuesStart

(* ------------------- the grid layout as a pure function --------------- *)
\* computeTargets' GRID loop on its own, for one count after the other up to
\* MaxCount
GridLayout(count) ==
  /\ count = Len(targetsRef.grid) + 1
  /\ targetsRef' = [targetsRef EXCEPT !.grid = ComputeGrid(count)]
  /\ UNCHANGED <<accessToken, tokenClientRef, requests, effectCleanup,
                 rendererRef, sceneRef, rafRef, objectsRef, objects,
                 tweenGroup, preserve, fetches, loadCount, now>>

GridInit == Init /\ preserve = FALSE

GridNext == \E count \in 1..MaxCount : GridLayout(count)

SpecGrid == GridInit /\ [][GridNext]_vars

\* every grid target lies within the box of half extents
\* (sizeX/2, sizeY/2, sizeZ/2) * spacing
GridWithinBox ==
  \A k \in 1..Len(targetsRef.grid) :
    LET p == targetsRef.grid[k].position
    IN  /\ 2 * Abs(p[1]) <= sizeX * spacing * Unit
        /\ 2 * Abs(p[2]) <= sizeY * spacing * Unit
        /\ 2 * Abs(p[3]) <= sizeZ * spacing * Unit

====
